---- MODULE Spec2Model ----
(***************************************************************************)
(* Model of the PDF booklet functions of gabc_pdf_tool.py:                 *)
(*   generate_booklet_pages(nop)  - the saddle-stitch page order           *)
(*   booklet_rearrange(...)       - range resolution, dry run, and the     *)
(*                                  materialisation of the reordered PDF   *)
(*                                                                         *)
(* A PDF document is the sequence of its pages.  A page of the source is   *)
(* named by its 1-based page number, so the source document of `total`     *)
(* pages is <<1, 2, ..., total>>.  A page of the writer is a record        *)
(* [blank, src]: a blank page, or a copy of the source page number src.    *)
(* Python's optional `end` argument is a sequence of length at most one    *)
(* (<<>> is None); an optional output path is "" (None) or a file name.    *)
(***************************************************************************)
EXTENDS Integers, Sequences, FiniteSets, TLC

VARIABLES
    pc,           \* position of the running call
    args,         \* the arguments of the call and the environment it starts in
    source,       \* reader.pages: the pages of the source document
    total_pages,  \* local total_pages
    start,        \* local start (rebound by the clamping)
    end,          \* local end (rebound by the clamping), <<>> is None
    nop,          \* local nop
    pages_order,  \* local pages_order / the value generate_booklet_pages returns
    writer,       \* the pages of the PdfWriter
    k,            \* position of the for loop in pages_order (1-based)
    reads,        \* the 0-based indices at which reader.pages[idx] was read
    stdout,       \* the messages printed, in order
    printed,      \* the page order printed by the dry run
    out_file,     \* the file at output_path: [exists, written, doc]
    status        \* exit status of the process (0 until sys.exit or a crash)

vars == <<pc, args, source, total_pages, start, end, nop, pages_order, writer,
          k, reads, stdout, printed, out_file, status>>

\* Largest page count given to generate_booklet_pages on its own.
MaxNop == 60
\* Largest source document handed to booklet_rearrange.
MaxTotal == 20

None == <<>>
Some(v) == <<v>>

BlankPage == [blank |-> TRUE, src |-> 0]
CopyOf(page) == [blank |-> FALSE, src |-> page]

(***************************************************************************)
(* generate_booklet_pages                                                  *)
(***************************************************************************)

\* the sheet count rounded down instead of up
SheetCountFloor(n) == n \div 4

\* nop_booklet = (nop + 3) // 4
SheetCount(n) == (n + 3) \div 4

\* base without the [::-1]
BaseAscending(s) == [j \in 1..s |-> 2 * j]

\* base = [2 * (i + 1) for i in range(nop_booklet)][::-1]
\* element j (1-based) of the reversed list is element s - j (0-based) of
\* the comprehension, 2 * ((s - j) + 1).
Base(s) == [j \in 1..s |-> 2 * ((s - j) + 1)]

\* num without the + 1
NumNoOffset(s) == s * 4

\* num = nop_booklet * 4 + 1
Num(s) == s * 4 + 1

\* the fourth append "simplified" to i
EmitRepeatsFirst(i, num) == <<i, num - i, num - i + 1, i>>

\* the four appends of one iteration of the loop over base
Emit(i, num) == <<i, num - i, num - i + 1, num - (num - i + 1)>>

RECURSIVE AppendAll(_, _, _, _)
\* for i in base: pages.append(...) x 4, from position j of base
AppendAll(base, j, num, pages) ==
    IF j > Len(base) THEN pages
    ELSE AppendAll(base, j + 1, num, pages \o Emit(base[j], num))

generate_booklet_pages(n) ==
    AppendAll(Base(SheetCount(n)), 1, Num(SheetCount(n)), <<>>)

(***************************************************************************)
(* The function called on its own, for every page count 0..MaxNop.         *)
(***************************************************************************)

NoArgs == [start |-> 1, end |-> None, print_only |-> TRUE, output_path |-> "",
           exists |-> FALSE]

InitPages ==
    /\ pc = "call"
    /\ nop \in 0..MaxNop
    /\ pages_order = <<>>
    /\ args = NoArgs
    /\ source = <<>>
    /\ total_pages = 0
    /\ start = 1
    /\ end = None
    /\ writer = <<>>
    /\ k = 1
    /\ reads = {}
    /\ stdout = <<>>
    /\ printed = <<>>
    /\ out_file = [exists |-> FALSE, written |-> FALSE, doc |-> <<>>]
    /\ status = 0

GenerateBookletPages ==
    /\ pc = "call"
    /\ pages_order' = generate_booklet_pages(nop)
    /\ pc' = "ret"
    /\ UNCHANGED <<args, source, total_pages, start, end, nop, writer, k, reads,
                   stdout, printed, out_file, status>>

NextPages == GenerateBookletPages

SpecPages == InitPages /\ [][NextPages]_vars

(***************************************************************************)
(* booklet_rearrange                                                       *)
(***************************************************************************)

Doc(total) == [i \in 1..total |-> i]

ArgSet ==
    [start : (0 - 1)..(MaxTotal + 1),
     end : {None} \cup {Some(e) : e \in (0 - 1)..(MaxTotal + 1)},
     print_only : BOOLEAN,
     output_path : {"", "out.pdf"},
     exists : BOOLEAN]

Init ==
    /\ pc = "open"
    /\ args \in {a \in ArgSet : a.exists => a.output_path # ""}
    /\ source \in {Doc(t) : t \in 0..MaxTotal}
    /\ total_pages = 0
    /\ start = args.start
    /\ end = args.end
    /\ nop = 0
    /\ pages_order = <<>>
    /\ writer = <<>>
    /\ k = 1
    /\ reads = {}
    /\ stdout = <<>>
    /\ printed = <<>>
    /\ out_file = [exists |-> args.exists, written |-> FALSE, doc |-> <<>>]
    /\ status = 0

\* print(msg); sys.exit(1)
Die(msg) ==
    /\ stdout' = Append(stdout, msg)
    /\ status' = 1
    /\ pc' = "exit"

\* an exception nothing catches: the traceback, and the interpreter exits 1
Crash(exc) ==
    /\ stdout' = Append(stdout, exc)
    /\ status' = 1
    /\ pc' = "crash"

\* try: reader = PdfReader(input_path) except: print, sys.exit(1)
OpenReader ==
    /\ pc = "open"
    /\ \/ /\ Die("Error reading PDF file")
          /\ UNCHANGED <<args, source, total_pages, start, end, nop, pages_order,
                         writer, k, reads, printed, out_file>>
       \/ /\ pc' = "resolve"
          /\ UNCHANGED <<args, source, total_pages, start, end, nop, pages_order,
                         writer, k, reads, stdout, printed, out_file, status>>

\* if end is None or end > total_pages: end = total_pages
ClampEnd(e, total) == IF e = None \/ e[1] > total THEN total ELSE e[1]

\* if start < 1: start = 1
ClampStart(s) == IF s < 1 THEN 1 ELSE s

\* the start > end test left out
RangeErrorNever(s, e) == FALSE

\* if start > end: error
RangeError(s, e) == s > e

\* total_pages = len(reader.pages) ... pages_order = generate_booklet_pages(nop)
ResolveRange ==
    /\ pc = "resolve"
    /\ LET total == Len(source)
           e == ClampEnd(end, total)
           s == ClampStart(start)
       IN /\ total_pages' = total
          /\ end' = Some(e)
          /\ start' = s
          /\ IF RangeError(s, e)
             THEN /\ Die("Error: Start page cannot be greater than end page.")
                  /\ UNCHANGED <<nop, pages_order>>
             ELSE /\ nop' = e - s + 1
                  /\ pages_order' = generate_booklet_pages(e - s + 1)
                  /\ pc' = "mode"
                  /\ UNCHANGED <<stdout, status>>
    /\ UNCHANGED <<args, source, writer, k, reads, printed, out_file>>

\* if print_only: print the order; return
PrintOrder ==
    /\ pc = "mode"
    /\ args.print_only
    /\ stdout' = Append(stdout, "New page order (1-based, relative to the selected range):")
    /\ printed' = pages_order
    /\ pc' = "return"
    /\ UNCHANGED <<args, source, total_pages, start, end, nop, pages_order, writer,
                   k, reads, out_file, status>>

\* the os.path.exists test left out
OutputPathExistsNever(path, file) == FALSE

\* output_path and os.path.exists(output_path)
OutputPathExists(path, file) == path # "" /\ file.exists

\* if output_path and os.path.exists(output_path): print, sys.exit(1)
RefuseOverwrite ==
    /\ pc = "mode"
    /\ ~args.print_only
    /\ OutputPathExists(args.output_path, out_file)
    /\ Die("Error: Output file already exists")
    /\ UNCHANGED <<args, source, total_pages, start, end, nop, pages_order, writer,
                   k, reads, printed, out_file>>

\* writer = PdfWriter()
NewWriter ==
    /\ pc = "mode"
    /\ ~args.print_only
    /\ ~OutputPathExists(args.output_path, out_file)
    /\ writer' = <<>>
    /\ k' = 1
    /\ pc' = "loop"
    /\ UNCHANGED <<args, source, total_pages, start, end, nop, pages_order, reads,
                   stdout, printed, out_file, status>>

\* if p > nop
IsBlankSlot(p, n) == p > n

\* the offset of a 1-based page accessor
PageIndexOneBased(p, s) == p + s - 1

\* idx = p + start - 2
PageIndex(p, s) == p + s - 2

\* Python's list index: 0-based, a negative index counts from the end
IndexInRange(seq, idx) == idx >= 0 - Len(seq) /\ idx < Len(seq)
GetItem(seq, idx) == IF idx >= 0 THEN seq[idx + 1] ELSE seq[Len(seq) + idx + 1]

\* one iteration of: for p in pages_order
AddPage ==
    /\ pc = "loop"
    /\ k <= Len(pages_order)
    /\ LET p == pages_order[k]
           idx == PageIndex(p, start)
       IN IF IsBlankSlot(p, nop)
          THEN \* writer.add_blank_page(): the size is the last page's, and
               \* a writer with no page has none
               IF writer = <<>>
               THEN /\ Crash("PageSizeNotDefinedError")
                    /\ UNCHANGED <<writer, k, reads>>
               ELSE /\ writer' = Append(writer, BlankPage)
                    /\ k' = k + 1
                    /\ UNCHANGED <<pc, reads, stdout, status>>
          ELSE \* writer.add_page(reader.pages[idx])
               IF IndexInRange(source, idx)
               THEN /\ reads' = reads \cup {idx}
                    /\ writer' = Append(writer, CopyOf(GetItem(source, idx)))
                    /\ k' = k + 1
                    /\ UNCHANGED <<pc, stdout, status>>
               ELSE /\ Crash("IndexError")
                    /\ UNCHANGED <<writer, k, reads>>
    /\ UNCHANGED <<args, source, total_pages, start, end, nop, pages_order, printed,
                   out_file>>

\* try: with open(output_path, 'wb') as f: writer.write(f) except: print, exit
WriteOutput ==
    /\ pc = "loop"
    /\ k > Len(pages_order)
    /\ \/ \* the file is written
          /\ args.output_path # ""
          /\ out_file' = [exists |-> TRUE, written |-> TRUE, doc |-> writer]
          /\ stdout' = Append(stdout, "Success! Rearranged PDF saved to:")
          /\ pc' = "return"
          /\ UNCHANGED status
       \/ \* open() raises (output_path is None, or the file system refuses)
          /\ Die("Error writing output file")
          /\ UNCHANGED out_file
       \/ \* open() creates or truncates the file and writer.write(f) raises
          /\ args.output_path # ""
          /\ \E n \in 0..(Len(writer) - 1) :
                out_file' = [exists |-> TRUE, written |-> TRUE,
                             doc |-> SubSeq(writer, 1, n)]
          /\ Die("Error writing output file")
    /\ UNCHANGED <<args, source, total_pages, start, end, nop, pages_order, writer,
                   k, reads, printed>>

Next ==
    \/ OpenReader
    \/ ResolveRange
    \/ PrintOrder
    \/ RefuseOverwrite
    \/ NewWriter
    \/ AddPage
    \/ WriteOutput

Spec == Init /\ [][Next]_vars

(***************************************************************************)
(* Properties of generate_booklet_pages, checked under SpecPages.          *)
(***************************************************************************)

Returned == pc = "ret"

\* ceil(n / 4), stated without the code's (n + 3) // 4
Ceil4(n) == CHOOSE s \in 0..n : 4 * s >= n /\ 4 * s < n + 4

Values(seq) == {seq[i] : i \in 1..Len(seq)}

\* C1: for every nop >= 0 the returned sequence has exactly 4 * ceil(nop/4)
\* elements, and nop = 0 returns the empty sequence.
C1_Length ==
    Returned =>
        /\ Len(pages_order) = 4 * Ceil4(nop)
        /\ (nop = 0 => pages_order = <<>>)

C1_Witness == Returned /\ nop = 5 /\ Len(pages_order) = 8

\* C2: every returned element lies in 1..4*ceil(nop/4) and none occurs twice,
\* so the sequence is a permutation of 1..4*ceil(nop/4); for nop a multiple
\* of 4 it is a permutation of 1..nop.
C2_Permutation ==
    Returned =>
        /\ \A i \in 1..Len(pages_order) :
              pages_order[i] >= 1 /\ pages_order[i] <= 4 * Ceil4(nop)
        /\ \A i, j \in 1..Len(pages_order) :
              i # j => pages_order[i] # pages_order[j]
        /\ Values(pages_order) = 1..(4 * Ceil4(nop))
        /\ (nop % 4 = 0 =>
              Values(pages_order) = 1..nop /\ Len(pages_order) = nop)

C2_Witness ==
    Returned /\ nop = 12 /\ Len(pages_order) = 12 /\ Values(pages_order) = 1..12

\* C3: with s = ceil(nop/4) and num = 4s + 1 the result is, for
\* b = 2s, 2s-2, ..., 2 in that order, the four values
\* (b, num-b, num-b+1, num-(num-b+1)), the fourth being b-1; nop = 8 gives
\* exactly [4, 5, 6, 3, 2, 7, 8, 1].
C3_Shape ==
    Returned =>
        LET s == Ceil4(nop)
            num == 4 * s + 1
        IN /\ Len(pages_order) = 4 * s
           /\ \A j \in 1..s :
                 LET b == 2 * s - 2 * (j - 1)
                 IN /\ pages_order[4 * j - 3] = b
                    /\ pages_order[4 * j - 2] = num - b
                    /\ pages_order[4 * j - 1] = num - b + 1
                    /\ pages_order[4 * j] = num - (num - b + 1)
                    /\ pages_order[4 * j] = b - 1
           /\ (nop = 8 => pages_order = <<4, 5, 6, 3, 2, 7, 8, 1>>)

C3_Witness == Returned /\ nop = 8 /\ pages_order = <<4, 5, 6, 3, 2, 7, 8, 1>>

\* C9: for nop >= 1 the two values printed on one sheet face (0-based
\* indices 2k and 2k+1) sum to 4*ceil(nop/4) + 1, and the four values of
\* sheet j are exactly {b-1, b, num-b, num-b+1} for that sheet's b.
C9_Pairing ==
    (Returned /\ nop >= 1) =>
        LET s == Ceil4(nop)
            num == 4 * s + 1
        IN /\ Len(pages_order) = 4 * s
           /\ \A f \in 0..(2 * s - 1) :
                 pages_order[2 * f + 1] + pages_order[2 * f + 2] = num
           /\ \A j \in 0..(s - 1) :
                 LET b == 2 * (s - j)
                 IN {pages_order[4 * j + i] : i \in 1..4}
                        = {b - 1, b, num - b, num - b + 1}

C9_Witness ==
    /\ Returned
    /\ nop = 6
    /\ pages_order[1] + pages_order[2] = 9
    /\ {pages_order[4 + i] : i \in 1..4} = {1, 2, 7, 8}

\* The first half of C8: the number of elements > nop is 4*ceil(nop/4) - nop.
BlankSlots(seq, n) == {i \in 1..Len(seq) : seq[i] > n}

BlankSlotCount ==
    Returned => Cardinality(BlankSlots(pages_order, nop)) = 4 * Ceil4(nop) - nop

(***************************************************************************)
(* Properties of booklet_rearrange, checked under Spec.                    *)
(***************************************************************************)

ErrRead == "Error reading PDF file"
ErrRange == "Error: Start page cannot be greater than end page."
ErrExists == "Error: Output file already exists"

InitialFile == [exists |-> args.exists, written |-> FALSE, doc |-> <<>>]

\* the source was opened and the range resolution has run
RangeResolved == pc \notin {"open", "resolve"} /\ stdout # <<ErrRead>>

\* the range was valid and the mode has been decided
Materializing ==
    /\ RangeResolved
    /\ nop >= 1
    /\ ~args.print_only
    /\ pc # "mode"

Refused == stdout = <<ErrExists>>

Terminated == pc \in {"return", "exit", "crash"}

\* C4 as stated: each copy appended for a sequence value p <= nop is the
\* source page whose 1-based number is p + start - 2.
C4_AsStated ==
    \A i \in 1..Len(writer) :
        pages_order[i] <= nop => writer[i] = CopyOf(pages_order[i] + start - 2)

\* C4 amended: each page appended for a sequence value p <= nop is a copy
\* of reader.pages[p + start - 2], a 0-based index: the source page whose
\* 1-based number is p + start - 1.  With start = 3, end = 10 the value 4
\* maps to source page 6.
C4_CopyIndex ==
    \A i \in 1..Len(writer) :
        pages_order[i] <= nop =>
            /\ writer[i] = CopyOf(pages_order[i] + start - 1)
            /\ (pages_order[i] + start - 2) \in reads
            /\ pages_order[i] + start - 1 >= start
            /\ pages_order[i] + start - 1 <= end[1]

C4_Witness ==
    /\ args.start = 3
    /\ args.end = Some(10)
    /\ Len(source) = 20
    /\ \E i \in 1..Len(writer) : pages_order[i] = 4 /\ writer[i] = CopyOf(6)

\* C5 as stated: in materialize mode with a valid range the loop appends
\* one page per position, blank exactly where the value is > nop, so the
\* output has len(sequence) = 4*ceil(nop/4) pages in sequence order, and the
\* source is not modified.
C5_AsStated ==
    (Materializing /\ ~Refused) =>
        /\ Len(writer) <= Len(pages_order)
        /\ \A i \in 1..Len(writer) : writer[i].blank <=> pages_order[i] > nop
        /\ (Terminated =>
              Len(writer) = Len(pages_order) /\ Len(writer) = 4 * Ceil4(nop))
        /\ source = Doc(Len(source))

\* C6: end becomes total when None or > total, then start becomes 1 when
\* < 1; start > end after that fails with the range error and status 1
\* with no page read, no order computed or printed and the output file
\* untouched; otherwise 1 <= start <= end <= total and
\* nop = end - start + 1 >= 1.
C6_RangeResolution ==
    RangeResolved =>
        LET total == Len(source)
            wantEnd == IF args.end = None THEN total
                       ELSE IF args.end[1] > total THEN total ELSE args.end[1]
            wantStart == IF args.start < 1 THEN 1 ELSE args.start
        IN /\ total_pages = total
           /\ end = Some(wantEnd)
           /\ start = wantStart
           /\ IF wantStart > wantEnd
              THEN /\ pc = "exit"
                   /\ status = 1
                   /\ stdout = <<ErrRange>>
                   /\ reads = {}
                   /\ pages_order = <<>>
                   /\ printed = <<>>
                   /\ writer = <<>>
                   /\ out_file = InitialFile
              ELSE /\ \A i \in 1..Len(stdout) : stdout[i] # ErrRange
                   /\ 1 <= start
                   /\ start <= end[1]
                   /\ end[1] <= total
                   /\ nop = end[1] - start + 1
                   /\ nop >= 1
                   /\ pages_order # <<>>

C6_Witness ==
    /\ args.start = 5
    /\ args.end = Some(3)
    /\ Len(source) >= 5
    /\ pc = "exit"
    /\ status = 1
    /\ stdout = <<ErrRange>>

\* C7: in materialize mode with a readable source and a valid range, an
\* output path that exists makes the call fail with the exists error and
\* status 1 before a page is appended and before the file is opened, the
\* file left as it was; a dry run never creates or modifies the file.
C7_NoOverwrite ==
    /\ (Materializing /\ args.output_path # "" /\ args.exists) =>
          /\ pc = "exit"
          /\ status = 1
          /\ stdout = <<ErrExists>>
          /\ writer = <<>>
          /\ reads = {}
          /\ out_file = InitialFile
    /\ args.print_only => out_file = InitialFile

C7_Witness ==
    /\ Materializing
    /\ args.output_path # ""
    /\ args.exists
    /\ pc = "exit"
    /\ stdout = <<ErrExists>>
    /\ out_file = InitialFile

\* C8 as stated: for every valid resolved range the materialized output
\* holds exactly 4*ceil(nop/4) - nop blank pages, each source page of
\* start..end exactly once, and no other source page.
Copies(doc, page) == {i \in 1..Len(doc) : doc[i] = CopyOf(page)}

C8_AsStated ==
    (Materializing /\ ~Refused /\ Terminated) =>
        /\ Cardinality(BlankSlots(pages_order, nop)) = 4 * Ceil4(nop) - nop
        /\ Cardinality({i \in 1..Len(writer) : writer[i].blank})
               = 4 * Ceil4(nop) - nop
        /\ \A page \in 1..Len(source) :
              Cardinality(Copies(writer, page))
                  = IF page >= start /\ page <= end[1] THEN 1 ELSE 0
        /\ (pc = "return" => out_file.doc = writer)

\* C10 as stated: for every nop >= 1 reached from a valid range the first
\* element of the page order is <= nop, so the first page appended is a copy
\* of a source page, never a blank page.
C10_AsStated ==
    (RangeResolved /\ nop >= 1) =>
        /\ pages_order[1] <= nop
        /\ (Len(writer) >= 1 => ~writer[1].blank)

====
